---- MODULE Spec2Model ----
(***************************************************************************)
(* Model of agent-receipts: the ReceiptAnchor ledger contract              *)
(* (contracts/ReceiptAnchor.sol), the attestation service (src/signer.ts,  *)
(* src/generator.ts) and the verification engine (src/verifier.ts).        *)
(*                                                                         *)
(* Four specifications share the variables:                                *)
(*   LedgerSpec  the ledger contract under arbitrary transactions;         *)
(*   Spec        one receipt held by a caller: createReceipt, signReceipt, *)
(*               addAttestation;                                           *)
(*   SignSpec    signReceipt and verifyAttestation against receipts and    *)
(*               attestations of the caller's choice;                      *)
(*   VerifySpec  verifyReceipt applied to receipt documents, under every   *)
(*               response of the chain-data collaborator.                  *)
(*                                                                         *)
(* Hashes and signatures are ideal: equal digests mean equal contents, and *)
(* a signature recovers to the signer's address only for the digest it was *)
(* made over.                                                              *)
(***************************************************************************)
EXTENDS Integers, Sequences, FiniteSets, TLC

VARIABLES
    receipts,        \* ReceiptAnchor.receipts   : receiptId -> Receipt struct
    receiptIds,      \* ReceiptAnchor.receiptIds : bytes32[]
    events,          \* the ReceiptAnchored event log
    blockTimestamp,  \* block.timestamp of the block being executed
    lastCall,        \* outcome of the last anchorReceipt transaction
    receipt,         \* the AgentReceipt held by the caller (NoReceipt before creation)
    now,             \* the wall clock read by new Date()
    signed,          \* what the last signReceipt call signed and returned
    out,             \* result of the last library call
    calls,           \* anchorReceipt transactions submitted together by writers
    outcomes         \* how each submitted transaction ended, once it is mined

ledgerVars == <<receipts, receiptIds, events, blockTimestamp, lastCall,
                calls, outcomes>>
libVars == <<receipt, now, signed, out>>
vars == <<receipts, receiptIds, events, blockTimestamp, lastCall,
          receipt, now, signed, out, calls, outcomes>>

----------------------------------------------------------------------------
(* Bounds *)

MaxAnchors == 5
MaxTime == 2
MaxAtt == 3
MaxNow == 2
MaxDocAtt == 2
NumCalls == 3

----------------------------------------------------------------------------
(* ReceiptAnchor.sol *)

\* bytes32 receipt identifiers
LedgerIds == {"id1", "id2"}
\* bytes32 values; 0 is bytes32(0)
Hashes == {0, 1, 2}
\* string calldata; "" has length 0
Cids == {"", "loc1", "loc2"}
TxHashes == {1, 2}
\* msg.sender; "0x0" is address(0), which is never a sender
Senders == {"w1", "w2"}

ZeroReceipt ==
    [receiptHash |-> 0, ipfsCid |-> "", originalTxHash |-> 0,
     anchoredBy |-> "0x0", anchoredAt |-> 0]

NoCall == [op |-> "none"]

LedgerInit ==
    /\ receipts = [id \in LedgerIds |-> ZeroReceipt]
    /\ receiptIds = <<>>
    /\ events = <<>>
    /\ blockTimestamp = 1
    /\ lastCall = NoCall

\* variant: the existence check is missing
AnchorRevert_NoExistenceCheck(receiptId, receiptHash, ipfsCid) ==
    IF receiptHash = 0 THEN "InvalidInput"
    ELSE IF ipfsCid = "" THEN "InvalidInput"
    ELSE "ok"

\* variant: the hash check is missing
AnchorRevert_NoHashCheck(receiptId, receiptHash, ipfsCid) ==
    IF receipts[receiptId].anchoredAt # 0 THEN "AlreadyAnchored"
    ELSE IF ipfsCid = "" THEN "InvalidInput"
    ELSE "ok"

\* which require of anchorReceipt reverts, if any (evaluated in source order)
AnchorRevert(receiptId, receiptHash, ipfsCid) ==
    IF receipts[receiptId].anchoredAt # 0 THEN "AlreadyAnchored"
    ELSE IF receiptHash = 0 THEN "InvalidInput"
    ELSE IF ipfsCid = "" THEN "InvalidInput"
    ELSE "ok"

\* variant: the block time is not stored
newReceipt_NoTimestamp(sender, receiptHash, ipfsCid, originalTxHash, timestamp) ==
    [receiptHash |-> receiptHash,
     ipfsCid |-> ipfsCid,
     originalTxHash |-> originalTxHash,
     anchoredBy |-> sender,
     anchoredAt |-> 0]

\* variant: the two bytes32 arguments are stored in each other's place
newReceipt_HashesSwapped(sender, receiptHash, ipfsCid, originalTxHash, timestamp) ==
    [receiptHash |-> originalTxHash,
     ipfsCid |-> ipfsCid,
     originalTxHash |-> receiptHash,
     anchoredBy |-> sender,
     anchoredAt |-> timestamp]

\* the Receipt struct anchorReceipt stores
newReceipt(sender, receiptHash, ipfsCid, originalTxHash, timestamp) ==
    [receiptHash |-> receiptHash,
     ipfsCid |-> ipfsCid,
     originalTxHash |-> originalTxHash,
     anchoredBy |-> sender,
     anchoredAt |-> timestamp]

anchorReceipt(sender, receiptId, receiptHash, ipfsCid, originalTxHash) ==
    LET status == AnchorRevert(receiptId, receiptHash, ipfsCid) IN
    /\ lastCall' = [op |-> "anchorReceipt", receiptId |-> receiptId,
                    receiptHash |-> receiptHash, ipfsCid |-> ipfsCid,
                    sender |-> sender, status |-> status]
    /\ IF status = "ok"
       THEN /\ Len(receiptIds) < MaxAnchors
            /\ receipts' = [receipts EXCEPT ![receiptId] =
                               newReceipt(sender, receiptHash, ipfsCid,
                                          originalTxHash, blockTimestamp)]
            /\ receiptIds' = Append(receiptIds, receiptId)
            /\ events' = Append(events,
                               [receiptId |-> receiptId,
                                receiptHash |-> receiptHash,
                                ipfsCid |-> ipfsCid,
                                originalTxHash |-> originalTxHash,
                                anchoredBy |-> sender,
                                timestamp |-> blockTimestamp])
       ELSE \* a revert undoes every effect of the transaction
            UNCHANGED <<receipts, receiptIds, events>>
    /\ UNCHANGED <<blockTimestamp, libVars>>

AnchorReceipt ==
    \E sender \in Senders, receiptId \in LedgerIds, receiptHash \in Hashes,
       ipfsCid \in Cids, originalTxHash \in TxHashes :
        /\ anchorReceipt(sender, receiptId, receiptHash, ipfsCid, originalTxHash)
        /\ UNCHANGED <<calls, outcomes>>

\* view functions
getReceipt(receiptId) == receipts[receiptId]

\* variant: the stored hash is compared without looking at anchoredAt
ledgerVerifyReceipt_NoExistenceCheck(receiptId, receiptHash) ==
    receipts[receiptId].receiptHash = receiptHash

ledgerVerifyReceipt(receiptId, receiptHash) ==
    LET r == receipts[receiptId] IN
    IF r.anchoredAt = 0 THEN FALSE ELSE r.receiptHash = receiptHash

receiptExists(receiptId) == receipts[receiptId].anchoredAt > 0

getReceiptCount == Len(receiptIds)

\* variant: the matching ids are returned last-anchored first
getReceiptsByAgent_Reversed(agent) ==
    LET s == SelectSeq(receiptIds, LAMBDA id : receipts[id].anchoredBy = agent)
    IN [k \in 1..Len(s) |-> s[Len(s) + 1 - k]]

RECURSIVE countByAgent(_, _, _)
\* first loop of getReceiptsByAgent: count the matching entries from i on
countByAgent(agent, i, count) ==
    IF i > Len(receiptIds) THEN count
    ELSE countByAgent(agent, i + 1,
                      IF receipts[receiptIds[i]].anchoredBy = agent
                      THEN count + 1 ELSE count)

RECURSIVE buildByAgent(_, _, _, _)
\* second loop of getReceiptsByAgent: fill result[idx] from entry i on
buildByAgent(agent, i, idx, result) ==
    IF i > Len(receiptIds) THEN result
    ELSE IF receipts[receiptIds[i]].anchoredBy = agent
         THEN buildByAgent(agent, i + 1, idx + 1,
                           [result EXCEPT ![idx] = receiptIds[i]])
         ELSE buildByAgent(agent, i + 1, idx, result)

\* "id0" is bytes32(0), the content of a fresh memory array
getReceiptsByAgent(agent) ==
    buildByAgent(agent, 1, 1, [k \in 1..countByAgent(agent, 1, 0) |-> "id0"])

\* a later block is mined; block.timestamp is positive and strictly increasing
NextBlock ==
    /\ blockTimestamp < MaxTime
    /\ blockTimestamp' = blockTimestamp + 1
    /\ UNCHANGED <<receipts, receiptIds, events, lastCall, libVars, calls, outcomes>>

----------------------------------------------------------------------------
(* Values of the library: strings, addresses, roles *)

\* absent optional field / falsy string
Undefined == ""

\* private keys handed to signReceipt
PrivateKeys == {"k1", "k2"}

\* privateKeyToAccount(privateKey).address : the checksummed address of the key
privateKeyToAccount(privateKey) ==
    CASE privateKey = "k1" -> "0xAb1"
      [] privateKey = "k2" -> "0xCd2"

\* String.prototype.toLowerCase on the address strings of the model
toLowerCase(s) ==
    CASE s = "0xAb1" -> "0xab1"
      [] s = "0xAB1" -> "0xab1"
      [] s = "0xCd2" -> "0xcd2"
      [] s = "0xCD2" -> "0xcd2"
      [] OTHER -> s

\* viem isAddress(a, {strict: false}): 0x followed by hex digits
isAddress(s) == s \in {"0xAb1", "0xab1", "0xAB1", "0xCd2", "0xcd2", "0xCD2", "0xee9"}

\* the address ecrecover yields when signature and digest do not belong
\* together: an address no credential of the model controls
StrayAddress == "0xee9"

Roles == {"buyer", "seller", "witness", "arbiter"}

----------------------------------------------------------------------------
(* src/generator.ts, src/types.ts *)

RECEIPT_DOMAIN == [name |-> "AgentReceipts", version |-> "1", chainId |-> 84532]

NoReceipt == [receiptId |-> Undefined]

ReceiptUuids == {"r1", "r2"}

\* An object carries the insertion order of its own enumerable keys (keys);
\* a key whose value is undefined is not serialized and is not listed.

\* TransactionProof as fetchTransactionProof builds it from the chain
TransactionProofs ==
    {[chain |-> "base-sepolia", txHash |-> "0xt1", blockNumber |-> 7,
      blockHash |-> "0xb7", timestamp |-> 1, from |-> "0xAb1", to |-> "0xCd2",
      amount |-> "100.00", currency |-> "USDC",
      keys |-> <<"chain", "txHash", "blockNumber", "blockHash", "timestamp",
                 "from", "to", "amount", "currency">>]}

\* CommerceContext supplied by the caller
CommerceContexts ==
    {[type |-> "service_payment", description |-> "API access",
      status |-> "paid_in_full", orderReference |-> Undefined,
      keys |-> <<"type", "description", "status">>]}

createReceipt(uuid, transactionProof, commerce, date) ==
    [receiptId |-> uuid,
     version |-> "1.0",
     createdAt |-> date,
     transaction |-> transactionProof,
     commerce |-> commerce,
     attestations |-> <<>>,
     ipfsCid |-> Undefined,
     onChainAnchor |-> Undefined,
     anchorTxHash |-> Undefined]

\* variant: the amount is left out of the message
getReceiptSigningMessage_NoAmount(r) ==
    [domain |-> RECEIPT_DOMAIN,
     primaryType |-> "Receipt",
     message |-> [receiptId |-> r.receiptId,
                  txHash |-> r.transaction.txHash,
                  amount |-> "",
                  commerceType |-> r.commerce.type,
                  description |-> r.commerce.description,
                  status |-> r.commerce.status,
                  timestamp |-> r.createdAt]]

\* variant: the status in the message tells a pinned receipt apart
getReceiptSigningMessage_WithLocator(r) ==
    [domain |-> RECEIPT_DOMAIN,
     primaryType |-> "Receipt",
     message |-> [receiptId |-> r.receiptId,
                  txHash |-> r.transaction.txHash,
                  amount |-> r.transaction.amount,
                  commerceType |-> r.commerce.type,
                  description |-> r.commerce.description,
                  status |-> IF r.ipfsCid = Undefined
                             THEN r.commerce.status ELSE "pinned",
                  timestamp |-> r.createdAt]]

getReceiptSigningMessage(r) ==
    [domain |-> RECEIPT_DOMAIN,
     primaryType |-> "Receipt",
     message |-> [receiptId |-> r.receiptId,
                  txHash |-> r.transaction.txHash,
                  amount |-> r.transaction.amount,
                  commerceType |-> r.commerce.type,
                  description |-> r.commerce.description,
                  status |-> r.commerce.status,
                  timestamp |-> r.createdAt]]

\* keccak256(toBytes(JSON.stringify({receiptId, version, transaction, commerce})))
\* the digest is identified with the serialized value (collision freedom);
\* JSON.stringify writes the keys of transaction and commerce in their
\* insertion order, which the objects carry
stringify(obj) ==
    [keys |-> obj.keys,
     values |-> [k \in {obj.keys[i] : i \in 1..Len(obj.keys)} |-> obj[k]]]

computeReceiptHash(r) ==
    [receiptId |-> r.receiptId, version |-> r.version,
     transaction |-> stringify(r.transaction), commerce |-> stringify(r.commerce)]

----------------------------------------------------------------------------
(* EIP-712 signing as the library uses it (viem) *)

\* hashTypedData: the digest binds the domain and the message fields of the
\* primary type (collision freedom: equal digests iff equal contents)
hashTypedData(typedData) ==
    <<typedData.domain.name, typedData.domain.version, typedData.domain.chainId,
      typedData.primaryType,
      typedData.message.receiptId, typedData.message.txHash,
      typedData.message.amount, typedData.message.commerceType,
      typedData.message.description, typedData.message.status,
      typedData.message.timestamp>>

\* walletClient.signTypedData: a signature is a well-formed pair of the
\* signing key and the digest it was made over
signTypedData(privateKey, typedData) ==
    [wellFormed |-> TRUE, key |-> privateKey, digest |-> hashTypedData(typedData)]

MalformedSignature == [wellFormed |-> FALSE, key |-> "", digest |-> <<>>]

\* recoverTypedDataAddress: the signer's address when the signature was made
\* over this digest, an unrelated address otherwise
recoverTypedDataAddress(typedData, signature) ==
    IF signature.digest = hashTypedData(typedData)
    THEN privateKeyToAccount(signature.key)
    ELSE StrayAddress

\* isAddressEqual: case-insensitive comparison
isAddressEqual(a, b) == toLowerCase(a) = toLowerCase(b)

\* viem verifyTypedData: throws on an invalid address or a signature that
\* cannot be parsed
verifyTypedDataThrows(address, signature) ==
    \/ ~isAddress(address)
    \/ ~signature.wellFormed

verifyTypedData(address, typedData, signature) ==
    isAddressEqual(address, recoverTypedDataAddress(typedData, signature))

----------------------------------------------------------------------------
(* src/signer.ts *)

NoSigned == [privateKey |-> Undefined]
NoOut == [op |-> "none"]

\* variant: the message is built with the signing time as its timestamp
signReceipt_SignsAtDate(r, privateKey, role, date) ==
    [agent |-> privateKeyToAccount(privateKey),
     signature |-> signTypedData(privateKey,
                       getReceiptSigningMessage([r EXCEPT !.createdAt = date + 1])),
     timestamp |-> date,
     role |-> role]

signReceipt(r, privateKey, role, date) ==
    [agent |-> privateKeyToAccount(privateKey),
     signature |-> signTypedData(privateKey, getReceiptSigningMessage(r)),
     timestamp |-> date,
     role |-> role]

\* variant: the addresses are compared as spelled
existing_CaseSensitive(r, attestation) ==
    \E i \in 1..Len(r.attestations) :
        r.attestations[i].agent = attestation.agent

\* variant: only the latest attestation is compared
existing_LastOnly(r, attestation) ==
    /\ Len(r.attestations) > 0
    /\ toLowerCase(r.attestations[Len(r.attestations)].agent)
          = toLowerCase(attestation.agent)

\* receipt.attestations.find(a => a.agent.toLowerCase() === attestation.agent.toLowerCase())
existing(r, attestation) ==
    \E i \in 1..Len(r.attestations) :
        toLowerCase(r.attestations[i].agent) = toLowerCase(attestation.agent)

\* variant: the new attestation is put in front of the list
addAttestation_Prepend(r, attestation) ==
    [r EXCEPT !.attestations = <<attestation>> \o r.attestations]

\* the receipt addAttestation returns when it does not throw
addAttestation(r, attestation) ==
    [r EXCEPT !.attestations = Append(r.attestations, attestation)]

\* variant: only attestations of the two parties are verified
verifyAttestationResult_PartiesOnly(r, attestation) ==
    IF verifyTypedDataThrows(attestation.agent, attestation.signature)
    THEN [threw |-> FALSE, ret |-> FALSE]
    ELSE [threw |-> FALSE,
          ret |-> /\ attestation.role \in {"buyer", "seller"}
                  /\ verifyTypedData(attestation.agent, getReceiptSigningMessage(r),
                                     attestation.signature)]

\* verifyAttestation: the try block catches whatever verifyTypedData throws
\* and returns false; nothing else in the function can throw
verifyAttestationResult(r, attestation) ==
    LET typedData == getReceiptSigningMessage(r) IN
    IF verifyTypedDataThrows(attestation.agent, attestation.signature)
    THEN [threw |-> FALSE, ret |-> FALSE]
    ELSE [threw |-> FALSE,
          ret |-> verifyTypedData(attestation.agent, typedData, attestation.signature)]

verifyAttestation(r, attestation) == verifyAttestationResult(r, attestation).ret

\* variant: one of the two roles is enough
hasRequiredAttestations_EitherRole(r) ==
    \/ \E i \in 1..Len(r.attestations) : r.attestations[i].role = "buyer"
    \/ \E i \in 1..Len(r.attestations) : r.attestations[i].role = "seller"

hasRequiredAttestations(r) ==
    LET hasBuyer == \E i \in 1..Len(r.attestations) : r.attestations[i].role = "buyer"
        hasSeller == \E i \in 1..Len(r.attestations) : r.attestations[i].role = "seller"
    IN hasBuyer /\ hasSeller

LibIdle ==
    /\ receipt = NoReceipt
    /\ now = 1
    /\ signed = NoSigned
    /\ out = NoOut

----------------------------------------------------------------------------
(* Operations on the receipt held by the caller *)

\* no batch of transactions is being followed
NoCalls == calls = <<>> /\ outcomes = <<>>

Init == LedgerInit /\ NoCalls /\ LibIdle

\* new Date() is read later than before
Tick ==
    /\ now < MaxNow
    /\ now' = now + 1
    /\ UNCHANGED <<receipt, signed, out, ledgerVars>>

CreateReceipt ==
    /\ receipt = NoReceipt
    /\ \E uuid \in ReceiptUuids, transactionProof \in TransactionProofs,
          commerce \in CommerceContexts :
          receipt' = createReceipt(uuid, transactionProof, commerce, now)
    /\ out' = [op |-> "createReceipt"]
    /\ UNCHANGED <<now, signed, ledgerVars>>

SignReceipt ==
    /\ receipt # NoReceipt
    /\ \E privateKey \in PrivateKeys, role \in Roles :
          signed' = [privateKey |-> privateKey,
                     receipt |-> receipt,
                     attestation |-> signReceipt(receipt, privateKey, role, now)]
    /\ out' = [op |-> "signReceipt"]
    /\ UNCHANGED <<receipt, now, ledgerVars>>

\* the attestations a caller may hand to addAttestation: the one signReceipt
\* returned, or the same with the signer address spelled in lower case
AttestationInputs ==
    IF signed = NoSigned THEN {}
    ELSE {signed.attestation,
          [signed.attestation EXCEPT !.agent = toLowerCase(signed.attestation.agent)]}

\* the argument object after the call: a new object is built by spreading,
\* the argument and its list are left alone
addAttestationArgument(r, attestation) == r

\* receipt = addAttestation(receipt, attestation); a throw leaves the binding
AddAttestation ==
    /\ receipt # NoReceipt
    /\ Len(receipt.attestations) < MaxAtt
    /\ \E attestation \in AttestationInputs :
          IF existing(receipt, attestation)
          THEN /\ out' = [op |-> "addAttestation", status |-> "DuplicateAttestation",
                          attestation |-> attestation,
                          argBefore |-> receipt, argAfter |-> receipt]
               /\ receipt' = receipt
          ELSE /\ out' = [op |-> "addAttestation", status |-> "ok",
                          attestation |-> attestation,
                          argBefore |-> receipt,
                          argAfter |-> addAttestationArgument(receipt, attestation)]
               /\ receipt' = addAttestation(receipt, attestation)
    /\ UNCHANGED <<now, signed, ledgerVars>>

Next == Tick \/ CreateReceipt \/ SignReceipt \/ AddAttestation

Spec == Init /\ [][Next]_vars

----------------------------------------------------------------------------
(* The flow of createAndSignReceipt, its steps taken in any order by a      *)
(* caller of the exported functions                                         *)

\* pinToIPFS: "bafyreig" followed by digits of the hash of the serialized
\* receipt; the receipts of a flow are told apart by their attestation count
pinToIPFS(r) ==
    CASE Len(r.attestations) = 0 -> "bafyreig0"
      [] Len(r.attestations) = 1 -> "bafyreig1"
      [] OTHER -> "bafyreig2"

\* the 0x-hex string of a receipt hash; the receipts of a flow differ in
\* receiptId only among the hashed fields
toHex(hash) == IF hash.receiptId = "r1" THEN "0xhash1" ELSE "0xhash2"

\* what sendTransaction returns, or that it throws
SendTransactions == {"0xa1", "throws"}

\* anchorOnChain when sendTransaction returns txHash
anchorOnChain(r, privateKey, txHash) ==
    [hash |-> toHex(computeReceiptHash(r)), txHash |-> txHash]

\* receipt.ipfsCid = await pinToIPFS(receipt)
PinToIPFS ==
    /\ receipt # NoReceipt
    /\ receipt' = [receipt EXCEPT !.ipfsCid = pinToIPFS(receipt)]
    /\ out' = [op |-> "pinToIPFS"]
    /\ UNCHANGED <<now, signed, ledgerVars>>

\* const { hash, txHash } = await anchorOnChain(receipt, key);
\* receipt.onChainAnchor = hash; receipt.anchorTxHash = txHash
AnchorOnChain ==
    /\ receipt # NoReceipt
    /\ \E privateKey \in PrivateKeys, sent \in SendTransactions :
          IF sent = "throws"
          THEN /\ receipt' = receipt
               /\ out' = [op |-> "anchorOnChain", status |-> "throws"]
          ELSE LET anchored == anchorOnChain(receipt, privateKey, sent) IN
               /\ receipt' = [receipt EXCEPT !.onChainAnchor = anchored.hash,
                                             !.anchorTxHash = anchored.txHash]
               /\ out' = [op |-> "anchorOnChain", status |-> "ok"]
    /\ UNCHANGED <<now, signed, ledgerVars>>

\* const attestation = await signReceipt({receipt, privateKey, role});
\* receipt = addAttestation(receipt, attestation), for the buyer or the seller
SignAndAttest ==
    /\ receipt # NoReceipt
    /\ Len(receipt.attestations) < MaxAtt
    /\ \E privateKey \in PrivateKeys, role \in {"buyer", "seller"} :
          LET attestation == signReceipt(receipt, privateKey, role, now) IN
          /\ signed' = [privateKey |-> privateKey,
                        receipt |-> receipt,
                        attestation |-> attestation]
          /\ IF existing(receipt, attestation)
             THEN /\ out' = [op |-> "addAttestation",
                             status |-> "DuplicateAttestation",
                             attestation |-> attestation,
                             argBefore |-> receipt, argAfter |-> receipt]
                  /\ receipt' = receipt
             ELSE /\ out' = [op |-> "addAttestation", status |-> "ok",
                             attestation |-> attestation,
                             argBefore |-> receipt,
                             argAfter |-> addAttestationArgument(receipt, attestation)]
                  /\ receipt' = addAttestation(receipt, attestation)
    /\ UNCHANGED <<now, ledgerVars>>

FlowNext == CreateReceipt \/ SignAndAttest \/ PinToIPFS \/ AnchorOnChain

FlowSpec == Init /\ [][FlowNext]_vars

----------------------------------------------------------------------------
(* Signing and verifying one attestation against receipts of the caller's *)
(* choice                                                                 *)

SignedFields ==
    {"receiptId", "txHash", "amount", "commerceType", "description", "status",
     "createdAt"}

UnsignedFields ==
    {"version", "chain", "blockNumber", "blockHash", "from", "to", "currency",
     "orderReference", "ipfsCid", "anchorTxHash"}

ReceiptFields == SignedFields \cup UnsignedFields

\* the receipt r with the one field f changed to another value of its type
WithField(r, f) ==
    CASE f = "receiptId" ->
            [r EXCEPT !.receiptId = IF @ = "r1" THEN "r2" ELSE "r1"]
      [] f = "txHash" ->
            [r EXCEPT !.transaction.txHash = IF @ = "0xt1" THEN "0xt2" ELSE "0xt1"]
      [] f = "amount" ->
            [r EXCEPT !.transaction.amount = IF @ = "100.00" THEN "1000.00" ELSE "100.00"]
      [] f = "commerceType" ->
            [r EXCEPT !.commerce.type = IF @ = "refund" THEN "other" ELSE "refund"]
      [] f = "description" ->
            [r EXCEPT !.commerce.description = IF @ = "GPU rental" THEN "API access" ELSE "GPU rental"]
      [] f = "status" ->
            [r EXCEPT !.commerce.status = IF @ = "disputed" THEN "cancelled" ELSE "disputed"]
      [] f = "createdAt" ->
            [r EXCEPT !.createdAt = @ + 1]
      [] f = "version" ->
            [r EXCEPT !.version = IF @ = "1.0" THEN "2.0" ELSE "1.0"]
      [] f = "chain" ->
            [r EXCEPT !.transaction.chain = IF @ = "base-sepolia" THEN "base" ELSE "base-sepolia"]
      [] f = "blockNumber" ->
            [r EXCEPT !.transaction.blockNumber = @ + 1]
      [] f = "blockHash" ->
            [r EXCEPT !.transaction.blockHash = IF @ = "0xb7" THEN "0xb8" ELSE "0xb7"]
      [] f = "from" ->
            [r EXCEPT !.transaction.from = IF @ = "0xAb1" THEN "0xCd2" ELSE "0xAb1"]
      [] f = "to" ->
            [r EXCEPT !.transaction.to = IF @ = "0xCd2" THEN "0xAb1" ELSE "0xCd2"]
      [] f = "currency" ->
            [r EXCEPT !.transaction.currency = IF @ = "USDC" THEN "DAI" ELSE "USDC"]
      [] f = "orderReference" ->
            IF r.commerce.orderReference = Undefined
            THEN [r EXCEPT !.commerce.orderReference = "0xorder",
                           !.commerce.keys = Append(@, "orderReference")]
            ELSE [r EXCEPT !.commerce.orderReference = Undefined,
                           !.commerce.keys =
                               SelectSeq(@, LAMBDA k : k # "orderReference")]
      [] f = "ipfsCid" ->
            [r EXCEPT !.ipfsCid = IF @ = Undefined THEN "bafyreig1" ELSE Undefined]
      [] f = "anchorTxHash" ->
            [r EXCEPT !.anchorTxHash = IF @ = Undefined THEN "0xa1" ELSE Undefined]

\* the value the signable message takes from the receipt for a signed field
SignedValue(r, f) ==
    CASE f = "receiptId" -> <<r.receiptId>>
      [] f = "txHash" -> <<r.transaction.txHash>>
      [] f = "amount" -> <<r.transaction.amount>>
      [] f = "commerceType" -> <<r.commerce.type>>
      [] f = "description" -> <<r.commerce.description>>
      [] f = "status" -> <<r.commerce.status>>
      [] f = "createdAt" -> <<r.createdAt>>

\* receipts handed to verifyAttestation: the caller's receipt, a copy with
\* one field changed, or another receipt fresh from createReceipt
ReceiptInputs ==
    {receipt}
    \cup {WithField(receipt, f) : f \in ReceiptFields}
    \cup {createReceipt(uuid, transactionProof, commerce, date) :
             uuid \in ReceiptUuids, transactionProof \in TransactionProofs,
             commerce \in CommerceContexts, date \in 1..MaxNow}

\* attestations handed to verifyAttestation: the one signReceipt returned, or
\* a copy with another claimed signer, with unparsable signature bytes, or
\* with another role and signing time
ClaimedAgents == {"0xAb1", "0xab1", "0xCd2", "0xcd2", "bogus"}

VerifyAttestationInputs ==
    IF signed = NoSigned THEN {}
    ELSE {[signed.attestation EXCEPT !.agent = agent] : agent \in ClaimedAgents}
         \cup {[signed.attestation EXCEPT !.signature = MalformedSignature]}
         \cup {[signed.attestation EXCEPT !.role = role, !.timestamp = date] :
                  role \in Roles, date \in 1..MaxNow}

\* verifyAttestation keeps nothing between calls: a call is followed from
\* the states the other operations reach
VerifyAttestation ==
    /\ receipt # NoReceipt
    /\ out.op # "verifyAttestation"
    /\ \E r \in ReceiptInputs, attestation \in VerifyAttestationInputs :
          LET result == verifyAttestationResult(r, attestation) IN
          out' = [op |-> "verifyAttestation", receipt |-> r,
                  attestation |-> attestation,
                  threw |-> result.threw, ret |-> result.ret]
    /\ UNCHANGED <<receipt, now, signed, ledgerVars>>

SignNext == Tick \/ CreateReceipt \/ SignReceipt \/ VerifyAttestation

SignSpec == Init /\ [][SignNext]_vars

----------------------------------------------------------------------------
(* src/signer.ts verifyAllAttestations, src/storage.ts, src/verifier.ts *)

Err(msg) == [msg |-> msg, agent |-> Undefined]
ErrAgent(msg, agent) == [msg |-> msg, agent |-> agent]

\* Map.prototype.set on a Map kept as a sequence of entries in insertion
\* order: an existing key keeps its position and takes the new value
MapSet(m, k, v) ==
    IF \E i \in 1..Len(m) : m[i].key = k
    THEN [i \in 1..Len(m) |-> IF m[i].key = k THEN [key |-> k, value |-> v] ELSE m[i]]
    ELSE Append(m, [key |-> k, value |-> v])

RECURSIVE verifyAllLoop(_, _, _)
verifyAllLoop(r, i, results) ==
    IF i > Len(r.attestations) THEN results
    ELSE verifyAllLoop(r, i + 1,
             MapSet(results, r.attestations[i].agent,
                    verifyAttestation(r, r.attestations[i])))

verifyAllAttestations(r) ==
    LET results == verifyAllLoop(r, 1, <<>>) IN
    [valid |-> \A i \in 1..Len(results) : results[i].value,
     results |-> results]

\* responses of the chain-data collaborator to verifyTransaction; a field
\* that is never read after an earlier failure keeps one value
TxRpcs ==
    {rpc \in [getTransaction : {"throws", "null", "found"},
              getTransactionReceipt : {"throws", "null", "found"},
              blockNumber : {7, 8},
              blockHash : {"0xb7", "0xb8"},
              status : {"success", "reverted"}] :
        /\ rpc.getTransaction # "found" => rpc.getTransactionReceipt = "null"
        /\ rpc.getTransactionReceipt # "found" =>
              rpc.blockNumber = 7 /\ rpc.blockHash = "0xb7" /\ rpc.status = "success"}

\* variant: the status of the settlement receipt is not looked at
verifyTransaction_NoStatusCheck(r, rpc) ==
    IF rpc.getTransaction = "throws"
    THEN [exists |-> FALSE, matches |-> FALSE,
          errors |-> <<Err("Error fetching transaction")>>]
    ELSE IF rpc.getTransaction = "null"
    THEN [exists |-> FALSE, matches |-> FALSE,
          errors |-> <<Err("Transaction not found on chain")>>]
    ELSE IF rpc.getTransactionReceipt = "throws"
    THEN [exists |-> FALSE, matches |-> FALSE,
          errors |-> <<Err("Error fetching transaction")>>]
    ELSE IF rpc.getTransactionReceipt = "null"
    THEN [exists |-> TRUE, matches |-> FALSE,
          errors |-> <<Err("Transaction receipt not found")>>]
    ELSE LET e1 == IF rpc.blockNumber # r.transaction.blockNumber
                   THEN <<Err("Block number mismatch")>> ELSE <<>>
             e2 == IF rpc.blockHash # r.transaction.blockHash
                   THEN <<Err("Block hash mismatch")>> ELSE <<>>
             errors == e1 \o e2
         IN [exists |-> TRUE, matches |-> Len(errors) = 0, errors |-> errors]

verifyTransaction(r, rpc) ==
    IF rpc.getTransaction = "throws"
    THEN [exists |-> FALSE, matches |-> FALSE,
          errors |-> <<Err("Error fetching transaction")>>]
    ELSE IF rpc.getTransaction = "null"
    THEN [exists |-> FALSE, matches |-> FALSE,
          errors |-> <<Err("Transaction not found on chain")>>]
    ELSE IF rpc.getTransactionReceipt = "throws"
    THEN [exists |-> FALSE, matches |-> FALSE,
          errors |-> <<Err("Error fetching transaction")>>]
    ELSE IF rpc.getTransactionReceipt = "null"
    THEN [exists |-> TRUE, matches |-> FALSE,
          errors |-> <<Err("Transaction receipt not found")>>]
    ELSE LET e1 == IF rpc.blockNumber # r.transaction.blockNumber
                   THEN <<Err("Block number mismatch")>> ELSE <<>>
             e2 == IF rpc.blockHash # r.transaction.blockHash
                   THEN <<Err("Block hash mismatch")>> ELSE <<>>
             e3 == IF rpc.status # "success"
                   THEN <<Err("Transaction was not successful")>> ELSE <<>>
             errors == e1 \o e2 \o e3
         IN [exists |-> TRUE, matches |-> Len(errors) = 0, errors |-> errors]

\* responses of the chain-data collaborator to verifyOnChainAnchor; input is
\* the calldata of the anchoring transaction as a sequence of words
AnchorRpcs(r) ==
    {rpc \in [getTransaction : {"throws", "null", "found"},
              input : {<<computeReceiptHash(r)>>,
                       <<computeReceiptHash(WithField(r, "receiptId")),
                         computeReceiptHash(r)>>,
                       <<computeReceiptHash(WithField(r, "receiptId"))>>},
              getBlock : {"throws", "ok"}] :
        rpc.getTransaction # "found" =>
            rpc.input = <<computeReceiptHash(r)>> /\ rpc.getBlock = "ok"}

\* tx.input === expectedHash || tx.input.includes(expectedHash.slice(2))
inputHoldsHash(input, expectedHash) ==
    \/ input = <<expectedHash>>
    \/ \E i \in 1..Len(input) : input[i] = expectedHash

verifyOnChainAnchor(r, rpc) ==
    IF r.anchorTxHash = Undefined THEN [exists |-> FALSE]
    ELSE IF rpc.getTransaction = "throws" THEN [exists |-> FALSE]
    ELSE IF rpc.getTransaction = "null" THEN [exists |-> FALSE]
    ELSE IF inputHoldsHash(rpc.input, computeReceiptHash(r))
    THEN IF rpc.getBlock = "throws" THEN [exists |-> FALSE] ELSE [exists |-> TRUE]
    ELSE [exists |-> FALSE]

\* errors pushed for the entries of the results Map that are false
RECURSIVE invalidSignatureErrors(_, _)
invalidSignatureErrors(results, i) ==
    IF i > Len(results) THEN <<>>
    ELSE (IF results[i].value THEN <<>>
          ELSE <<ErrAgent("Invalid signature from", results[i].key)>>)
         \o invalidSignatureErrors(results, i + 1)

\* optional checks are boolean | undefined
Tri(b) == IF b THEN "true" ELSE "false"

\* variant: the empty attestation list is not singled out
signaturesValid_NoEmptyCheck(r) == verifyAllAttestations(r).valid

\* step 2 of verifyReceipt: checks.signaturesValid
signaturesValid(r) ==
    IF Len(r.attestations) = 0 THEN FALSE ELSE verifyAllAttestations(r).valid

\* variant: no error is pushed for an invalid signature
signatureErrors_NoInvalid(r) ==
    IF Len(r.attestations) = 0 THEN <<Err("No attestations present")>>
    ELSE IF ~hasRequiredAttestations(r)
         THEN <<Err("Missing required attestations (need both buyer and seller)")>>
         ELSE <<>>

\* step 2 of verifyReceipt: the errors pushed
signatureErrors(r) ==
    LET sigVerification == verifyAllAttestations(r) IN
    IF Len(r.attestations) = 0 THEN <<Err("No attestations present")>>
    ELSE (IF ~sigVerification.valid
          THEN invalidSignatureErrors(sigVerification.results, 1)
          ELSE <<>>)
         \o (IF ~hasRequiredAttestations(r)
             THEN <<Err("Missing required attestations (need both buyer and seller)")>>
             ELSE <<>>)

\* variant: no partial credit for a check that was not attempted
confidenceOf_NoPartialCredit(checks) ==
      (IF checks.transactionExists THEN 25 ELSE 0)
    + (IF checks.transactionMatches THEN 25 ELSE 0)
    + (IF checks.signaturesValid THEN 30 ELSE 0)
    + (IF checks.anchorMatches = "true" THEN 10 ELSE 0)
    + (IF checks.ipfsAvailable = "true" THEN 10 ELSE 0)

\* variant: the partial credit goes to every check that did not fail
confidenceOf_CreditUnlessFalse(checks) ==
      (IF checks.transactionExists THEN 25 ELSE 0)
    + (IF checks.transactionMatches THEN 25 ELSE 0)
    + (IF checks.signaturesValid THEN 30 ELSE 0)
    + (IF checks.anchorMatches = "true" THEN 10 ELSE 0)
    + (IF checks.ipfsAvailable = "true" THEN 10 ELSE 0)
    + (IF checks.anchorMatches # "false" THEN 5 ELSE 0)
    + (IF checks.ipfsAvailable # "false" THEN 5 ELSE 0)

\* the confidence score computed from the checks
confidenceOf(checks) ==
      (IF checks.transactionExists THEN 25 ELSE 0)
    + (IF checks.transactionMatches THEN 25 ELSE 0)
    + (IF checks.signaturesValid THEN 30 ELSE 0)
    + (IF checks.anchorMatches = "true" THEN 10 ELSE 0)
    + (IF checks.ipfsAvailable = "true" THEN 10 ELSE 0)
    + (IF checks.anchorMatches = "undefined" THEN 5 ELSE 0)
    + (IF checks.ipfsAvailable = "undefined" THEN 5 ELSE 0)

\* variant: a failed anchor check invalidates the receipt
validOf_WithAnchor(checks) ==
    /\ checks.transactionExists /\ checks.transactionMatches /\ checks.signaturesValid
    /\ checks.anchorMatches # "false"

validOf(checks) ==
    checks.transactionExists /\ checks.transactionMatches /\ checks.signaturesValid

verifyReceipt(r, checkOnChain, txRpc, anchorRpc) ==
    LET txVerification == verifyTransaction(r, txRpc)
        anchorAttempted == checkOnChain /\ r.anchorTxHash # Undefined
        anchorVerification == verifyOnChainAnchor(r, anchorRpc)
        anchorErrors ==
            IF anchorAttempted /\ ~anchorVerification.exists
            THEN <<Err("On-chain anchor not found or does not match")>>
            ELSE <<>>
        checks == [transactionExists |-> txVerification.exists,
                   transactionMatches |-> txVerification.matches,
                   signaturesValid |-> signaturesValid(r),
                   anchorMatches |-> IF anchorAttempted
                                     THEN Tri(anchorVerification.exists)
                                     ELSE "undefined",
                   ipfsAvailable |-> IF r.ipfsCid # Undefined
                                     THEN "true" ELSE "undefined"]
    IN [valid |-> validOf(checks),
        checks |-> checks,
        errors |-> txVerification.errors \o signatureErrors(r) \o anchorErrors,
        confidence |-> confidenceOf(checks)]

\* variant: the comparison of the recorded facts is not looked at
quickVerify_ExistsOnly(r, txRpc) ==
    LET txVerification == verifyTransaction(r, txRpc) IN
    IF ~txVerification.exists
    THEN [valid |-> FALSE,
          message |-> [text |-> "Transaction not found on chain", errors |-> <<>>]]
    ELSE [valid |-> TRUE,
          message |-> [text |-> "Transaction verified on chain", errors |-> <<>>]]

\* quickVerify; the message is its fixed text and the errors joined into it
quickVerify(r, txRpc) ==
    LET txVerification == verifyTransaction(r, txRpc) IN
    IF ~txVerification.exists
    THEN [valid |-> FALSE,
          message |-> [text |-> "Transaction not found on chain", errors |-> <<>>]]
    ELSE IF ~txVerification.matches
    THEN [valid |-> FALSE,
          message |-> [text |-> "Transaction data mismatch",
                       errors |-> txVerification.errors]]
    ELSE [valid |-> TRUE,
          message |-> [text |-> "Transaction verified on chain", errors |-> <<>>]]

----------------------------------------------------------------------------
(* verifyReceipt applied to receipt documents of any origin *)

\* the receipt of Scenario A
ScenarioReceipt ==
    createReceipt("r1",
                  CHOOSE transactionProof \in TransactionProofs : TRUE,
                  CHOOSE commerce \in CommerceContexts : TRUE, 1)

\* attestations found in receipt documents: signed over the receipt by either
\* key in any role, with unparsable signature bytes, or signed over another
\* receipt
AttestationPool ==
    {signReceipt(ScenarioReceipt, privateKey, role, 1) :
        privateKey \in PrivateKeys, role \in Roles}
    \cup {[signReceipt(ScenarioReceipt, "k1", "buyer", 1)
              EXCEPT !.signature = MalformedSignature],
          signReceipt(WithField(ScenarioReceipt, "amount"), "k2", "seller", 1)}

RECURSIVE SeqsUpTo(_, _)
SeqsUpTo(S, n) ==
    IF n = 0 THEN {<<>>}
    ELSE LET shorter == SeqsUpTo(S, n - 1) IN
         shorter \cup {Append(q, x) : q \in shorter, x \in S}

ReceiptDocuments ==
    {[ScenarioReceipt EXCEPT !.attestations = attestations,
                             !.ipfsCid = ipfsCid,
                             !.anchorTxHash = anchorTxHash] :
        attestations \in SeqsUpTo(AttestationPool, MaxDocAtt),
        ipfsCid \in {Undefined, "bafyreig1"},
        anchorTxHash \in {Undefined, "0xa1"}}

VerifyInit ==
    /\ LedgerInit
    /\ NoCalls
    /\ receipt \in ReceiptDocuments
    /\ now = 1
    /\ signed = NoSigned
    /\ out = NoOut

\* one verification run per document: verifyReceipt keeps nothing between calls
VerifyReceipt ==
    /\ receipt # NoReceipt
    /\ out = NoOut
    /\ \E checkOnChain \in BOOLEAN, txRpc \in TxRpcs, anchorRpc \in AnchorRpcs(receipt) :
          out' = [op |-> "verifyReceipt", checkOnChain |-> checkOnChain,
                  result |-> verifyReceipt(receipt, checkOnChain, txRpc, anchorRpc)]
    /\ UNCHANGED <<receipt, now, signed, ledgerVars>>

\* verifyAllAttestations applied to the document
VerifyAllAttestations ==
    /\ receipt # NoReceipt
    /\ out = NoOut
    /\ out' = [op |-> "verifyAllAttestations",
               valid |-> verifyAllAttestations(receipt).valid,
               results |-> verifyAllAttestations(receipt).results]
    /\ UNCHANGED <<receipt, now, signed, ledgerVars>>

\* hasRequiredAttestations applied to the document
HasRequiredAttestations ==
    /\ receipt # NoReceipt
    /\ out = NoOut
    /\ out' = [op |-> "hasRequiredAttestations",
               ret |-> hasRequiredAttestations(receipt)]
    /\ UNCHANGED <<receipt, now, signed, ledgerVars>>

VerifyNext == VerifyReceipt \/ VerifyAllAttestations \/ HasRequiredAttestations

VerifySpec == VerifyInit /\ [][VerifyNext]_vars

----------------------------------------------------------------------------
(* verifyReceipt and quickVerify with the collaborator's responses on record *)

\* attestation lists of the documents: none; buyer and seller; unparsable
\* signature bytes; the same followed by a genuine attestation of the same
\* agent; signed over another amount; a witness only
TriageAttestations ==
    {<<>>,
     <<signReceipt(ScenarioReceipt, "k1", "buyer", 1),
       signReceipt(ScenarioReceipt, "k2", "seller", 1)>>,
     <<[signReceipt(ScenarioReceipt, "k1", "buyer", 1)
           EXCEPT !.signature = MalformedSignature]>>,
     <<[signReceipt(ScenarioReceipt, "k1", "buyer", 1)
           EXCEPT !.signature = MalformedSignature],
       signReceipt(ScenarioReceipt, "k1", "buyer", 1)>>,
     <<signReceipt(ScenarioReceipt, "k1", "buyer", 1),
       signReceipt(WithField(ScenarioReceipt, "amount"), "k2", "seller", 1)>>,
     <<signReceipt(ScenarioReceipt, "k1", "witness", 1)>>}

TriageDocuments ==
    {[ScenarioReceipt EXCEPT !.attestations = attestations,
                             !.ipfsCid = ipfsCid,
                             !.anchorTxHash = anchorTxHash] :
        attestations \in TriageAttestations,
        ipfsCid \in {Undefined, "bafyreig1"},
        anchorTxHash \in {Undefined, "0xa1"}}

TriageInit ==
    /\ LedgerInit
    /\ NoCalls
    /\ receipt \in TriageDocuments
    /\ now = 1
    /\ signed = NoSigned
    /\ out = NoOut

\* variant: on-chain checking is off unless asked for
checkOnChainOf_DefaultOff(given) == given = "true"

\* const { receipt, checkOnChain = true } = input: the default applies when
\* the caller leaves checkOnChain out
checkOnChainOf(given) == IF given = "undefined" THEN TRUE ELSE given = "true"

\* verifyReceipt({receipt, checkOnChain}) under one choice of responses
VerifyReceiptCall ==
    /\ out = NoOut
    /\ \E given \in {"true", "false", "undefined"}, txRpc \in TxRpcs,
          anchorRpc \in AnchorRpcs(receipt) :
          out' = [op |-> "verifyReceipt", given |-> given,
                  checkOnChain |-> checkOnChainOf(given),
                  txRpc |-> txRpc, anchorRpc |-> anchorRpc,
                  result |-> verifyReceipt(receipt, checkOnChainOf(given),
                                           txRpc, anchorRpc)]
    /\ UNCHANGED <<receipt, now, signed, ledgerVars>>

\* quickVerify(receipt) under one choice of responses
QuickVerify ==
    /\ out = NoOut
    /\ \E txRpc \in TxRpcs :
          out' = [op |-> "quickVerify", txRpc |-> txRpc,
                  ret |-> quickVerify(receipt, txRpc)]
    /\ UNCHANGED <<receipt, now, signed, ledgerVars>>

TriageNext == VerifyReceiptCall \/ QuickVerify

TriageSpec == TriageInit /\ [][TriageNext]_vars

----------------------------------------------------------------------------
(* computeReceiptHash applied to a receipt document and to documents derived *)
(* from it                                                                  *)

Reverse(q) == [i \in 1..Len(q) |-> q[Len(q) + 1 - i]]

\* the same object built by assigning its keys in the opposite order
Reordered(obj) == [obj EXCEPT !.keys = Reverse(@)]

HashDocuments ==
    {createReceipt(uuid, transactionProof, commerce, date) :
        uuid \in ReceiptUuids,
        transactionProof \in TransactionProofs
                             \cup {Reordered(t) : t \in TransactionProofs},
        commerce \in CommerceContexts \cup {Reordered(c) : c \in CommerceContexts},
        date \in 1..MaxNow}

\* documents derived from r: one field changed, the keys of commerce or of
\* transaction in another order, an attestation appended, anchoring fields set
HashInputs(r) ==
    {r}
    \cup {WithField(r, f) : f \in ReceiptFields}
    \cup {[r EXCEPT !.commerce = Reordered(@)],
          [r EXCEPT !.transaction = Reordered(@)]}
    \cup {addAttestation(r, signReceipt(r, privateKey, "buyer", r.createdAt)) :
             privateKey \in PrivateKeys}
    \cup {[r EXCEPT !.ipfsCid = "bafyreig1", !.onChainAnchor = "0xhash1",
                    !.anchorTxHash = "0xa1"]}

HashInit ==
    /\ LedgerInit
    /\ NoCalls
    /\ receipt \in HashDocuments
    /\ now = 1
    /\ signed = NoSigned
    /\ out = NoOut

ComputeReceiptHash ==
    /\ receipt # NoReceipt
    /\ \E r \in HashInputs(receipt) :
          out' = [op |-> "computeReceiptHash", receipt |-> r,
                  hash |-> computeReceiptHash(r),
                  base |-> computeReceiptHash(receipt)]
    /\ UNCHANGED <<receipt, now, signed, ledgerVars>>

HashNext == ComputeReceiptHash

HashSpec == HashInit /\ [][HashNext]_vars

----------------------------------------------------------------------------
(* anchorReceipt transactions submitted concurrently: the chain mines them *)
(* one at a time, in any order, each as one transaction                     *)

SubmittedCalls ==
    {[sender |-> "w1", receiptId |-> "id1", receiptHash |-> 1,
      ipfsCid |-> "loc1", originalTxHash |-> 1],
     [sender |-> "w2", receiptId |-> "id1", receiptHash |-> 2,
      ipfsCid |-> "loc2", originalTxHash |-> 1],
     [sender |-> "w2", receiptId |-> "id1", receiptHash |-> 1,
      ipfsCid |-> "loc1", originalTxHash |-> 1],
     [sender |-> "w1", receiptId |-> "id1", receiptHash |-> 0,
      ipfsCid |-> "loc1", originalTxHash |-> 1],
     [sender |-> "w2", receiptId |-> "id1", receiptHash |-> 1,
      ipfsCid |-> "", originalTxHash |-> 2],
     [sender |-> "w1", receiptId |-> "id2", receiptHash |-> 2,
      ipfsCid |-> "loc1", originalTxHash |-> 2]}

CallInit ==
    /\ LedgerInit
    /\ LibIdle
    /\ calls \in [1..NumCalls -> SubmittedCalls]
    /\ outcomes = [i \in 1..NumCalls |-> "pending"]

MineCall ==
    \E i \in 1..Len(calls) :
        /\ outcomes[i] = "pending"
        /\ anchorReceipt(calls[i].sender, calls[i].receiptId, calls[i].receiptHash,
                         calls[i].ipfsCid, calls[i].originalTxHash)
        /\ outcomes' = [outcomes EXCEPT ![i] = lastCall'.status]
        /\ UNCHANGED calls

CallNext == MineCall \/ NextBlock

CallSpec == CallInit /\ [][CallNext]_vars

\* --- any mix of writers anchoring many receiptIds (getReceiptsByAgent) ---

WriterIds == {"id1", "id2", "id3", "id4", "id5"}

WriterInit ==
    /\ receipts = [id \in WriterIds |-> ZeroReceipt]
    /\ receiptIds = <<>>
    /\ events = <<>>
    /\ blockTimestamp = 1
    /\ lastCall = NoCall
    /\ NoCalls
    /\ LibIdle

\* anchorReceipt by any writer on any receiptId, with a zero or a nonzero hash
AnchorByWriter ==
    \E sender \in Senders, receiptId \in DOMAIN receipts, receiptHash \in {0, 1} :
        /\ anchorReceipt(sender, receiptId, receiptHash, "loc1", 1)
        /\ UNCHANGED <<calls, outcomes>>

\* all calls are mined in one block: the list does not read the timestamps
WriterNext == AnchorByWriter

WriterSpec == WriterInit /\ [][WriterNext]_vars

LedgerNext == AnchorReceipt \/ NextBlock

LedgerSpec == Init /\ [][LedgerNext]_vars

----------------------------------------------------------------------------
(* Properties *)

EventsFor(receiptId) == {i \in 1..Len(events) : events[i].receiptId = receiptId}

\* C1: write-once ledger. For every receiptId at most one anchorReceipt call
\* succeeds (at most one ReceiptAnchored event carries it); every
\* anchorReceipt call on a receiptId that is already anchored fails with
\* AlreadyAnchored whatever hash and locator it carries, and the stored record
\* of an anchored receiptId is the same after every step.
C1_WriteOnce ==
    /\ [](\A receiptId \in LedgerIds : Cardinality(EventsFor(receiptId)) <= 1)
    /\ [][\A receiptId \in LedgerIds :
            receipts[receiptId].anchoredAt # 0 =>
               /\ getReceipt(receiptId)' = getReceipt(receiptId)
               /\ (/\ blockTimestamp' = blockTimestamp
                   /\ lastCall'.receiptId = receiptId)
                      => lastCall'.status = "AlreadyAnchored"]_vars

\* C1 witness: a second call for an anchored receiptId, carrying a valid hash
\* and locator other than the stored ones, failed and the first record stands
C1_Witness ==
    /\ lastCall.op = "anchorReceipt"
    /\ lastCall.status = "AlreadyAnchored"
    /\ lastCall.receiptHash # 0
    /\ lastCall.ipfsCid # ""
    /\ getReceipt(lastCall.receiptId).receiptHash # lastCall.receiptHash
    /\ getReceipt(lastCall.receiptId).ipfsCid # lastCall.ipfsCid
    /\ Cardinality(EventsFor(lastCall.receiptId)) = 1

HoldsSigner(r, agent) ==
    \E i \in 1..Len(r.attestations) :
        toLowerCase(r.attestations[i].agent) = toLowerCase(agent)

\* C2: duplicate rejection. addAttestation fails with DuplicateAttestation
\* whenever the receipt already holds an attestation whose signer address
\* equals the new one's regardless of case, and after the failed call the
\* attestation list of the argument and of the caller's receipt is what it was.
C2_DuplicateRejected ==
    (out.op = "addAttestation" /\ HoldsSigner(out.argBefore, out.attestation.agent))
       => /\ out.status = "DuplicateAttestation"
          /\ out.argAfter.attestations = out.argBefore.attestations
          /\ receipt.attestations = out.argBefore.attestations

\* C2 witness: a rejected attestation whose address is spelled differently
\* from the one already in the list
C2_Witness ==
    /\ out.op = "addAttestation"
    /\ out.status = "DuplicateAttestation"
    /\ Len(out.argBefore.attestations) > 0
    /\ \A i \in 1..Len(out.argBefore.attestations) :
          out.argBefore.attestations[i].agent # out.attestation.agent

\* C3: in every receipt reached from createReceipt by addAttestation calls,
\* successful or failed, no two attestations have the same signer address
\* under case-insensitive comparison.
C3_OnePerSigner ==
    receipt # NoReceipt =>
       \A i, j \in 1..Len(receipt.attestations) :
           i # j => toLowerCase(receipt.attestations[i].agent)
                       # toLowerCase(receipt.attestations[j].agent)

\* C3 witness: a receipt with two attestations on which a further call failed
C3_Witness ==
    /\ receipt # NoReceipt
    /\ Len(receipt.attestations) = 2
    /\ out.op = "addAttestation"
    /\ out.status = "DuplicateAttestation"

ReceiptVerified == out.op = "verifyReceipt"

\* C4: in every result of verifyReceipt, valid is true exactly when
\* transactionExists, transactionMatches and signaturesValid are all true,
\* whatever the anchor and content-store outcomes are.
C4_ValidIsConjunction ==
    ReceiptVerified =>
       (out.result.valid <=>
           /\ out.result.checks.transactionExists
           /\ out.result.checks.transactionMatches
           /\ out.result.checks.signaturesValid)

\* C4 witness: a valid result whose anchor check was attempted and failed
C4_Witness ==
    /\ ReceiptVerified
    /\ out.result.valid
    /\ out.result.checks.anchorMatches = "false"
    /\ out.result.checks.ipfsAvailable = "true"

\* C5: checks.signaturesValid is true only if every attestation verifies and
\* the receipt has at least one buyer and at least one seller attestation.
C5_SignaturesNeedBuyerAndSeller ==
    (ReceiptVerified /\ out.result.checks.signaturesValid)
       => /\ \A i \in 1..Len(receipt.attestations) :
                verifyAttestation(receipt, receipt.attestations[i])
          /\ hasRequiredAttestations(receipt)

HasError(msg) ==
    \E i \in 1..Len(out.result.errors) : out.result.errors[i].msg = msg

\* C6: for a receipt with zero attestations hasRequiredAttestations is false,
\* and verifyReceipt returns signaturesValid false, valid false and an error
\* list holding the no-attestations message, whatever the other checks return.
C6_NoAttestations ==
    (receipt # NoReceipt /\ Len(receipt.attestations) = 0)
       => /\ ~hasRequiredAttestations(receipt)
          /\ ReceiptVerified =>
                /\ ~out.result.checks.signaturesValid
                /\ ~out.result.valid
                /\ HasError("No attestations present")

\* C6 witness: a receipt without attestations whose transaction checks passed
C6_Witness ==
    /\ ReceiptVerified
    /\ Len(receipt.attestations) = 0
    /\ out.result.checks.transactionExists
    /\ out.result.checks.transactionMatches

Points(outcome, full) ==
    CASE outcome = "true" -> full
      [] outcome = "undefined" -> 5
      [] outcome = "false" -> 0

C8_ConfidenceBounds ==
    ReceiptVerified =>
       /\ 0 <= out.result.confidence
       /\ out.result.confidence <= 100
       /\ out.result.valid => out.result.confidence >= 80

\* C8 witness: a valid result with every check attempted and true
C8_Witness ==
    /\ ReceiptVerified
    /\ out.result.valid
    /\ out.result.confidence = 100

AttestationVerified == out.op = "verifyAttestation"

\* C9: signature round trip. The attestation signReceipt returns names the
\* address derived from the private key as agent, and verifyAttestation of
\* the signed receipt and that attestation returns true.
C9_RoundTrip ==
    signed # NoSigned =>
       /\ signed.attestation.agent = privateKeyToAccount(signed.privateKey)
       /\ (/\ AttestationVerified
           /\ out.receipt = signed.receipt
           /\ out.attestation = signed.attestation)
              => out.ret /\ ~out.threw

\* C9 witness: the returned attestation was verified against the signed
\* receipt after the clock moved on
C9_Witness ==
    /\ signed # NoSigned
    /\ AttestationVerified
    /\ out.receipt = signed.receipt
    /\ out.attestation = signed.attestation
    /\ out.attestation.timestamp > out.receipt.createdAt
    /\ out.ret

\* the signature of the verified attestation is the one signReceipt made
GenuineSignature ==
    /\ signed # NoSigned
    /\ out.attestation.signature = signed.attestation.signature

DiffersInSignedField(r1, r2) ==
    \E f \in SignedFields : SignedValue(r1, f) # SignedValue(r2, f)

C11_NoCrossNetworkReplay ==
    (/\ AttestationVerified
     /\ signed # NoSigned
     /\ out.attestation = signed.attestation
     /\ out.receipt = WithField(signed.receipt, "chain"))
       => ~out.ret

ReceiptHashed == out.op = "computeReceiptHash"

\* the keys an object holds and the value under each, whatever their order
Content(obj) == [k \in {obj.keys[i] : i \in 1..Len(obj.keys)} |-> obj[k]]

\* the two receipts hold the same receiptId and version and, in transaction
\* and commerce, the same keys with the same values
AgreeOnCore(r1, r2) ==
    /\ r1.receiptId = r2.receiptId
    /\ r1.version = r2.version
    /\ Content(r1.transaction) = Content(r2.transaction)
    /\ Content(r1.commerce) = Content(r2.commerce)

\* C12: computeReceiptHash depends on exactly receiptId, version, transaction
\* and commerce: two receipts hash identically if and only if they agree on
\* those four fields.
C12_HashIffCoreAgrees ==
    ReceiptHashed => (out.hash = out.base <=> AgreeOnCore(out.receipt, receipt))

\* C13: canonicalization is order-independent. Two receipts whose receiptId,
\* version, transaction and commerce hold the same keys with the same values
\* hash identically, whatever the order in which the keys were inserted.
C13_OrderIndependent ==
    (ReceiptHashed /\ AgreeOnCore(out.receipt, receipt)) => out.hash = out.base

\* the submitted transactions that name receiptId
CallsFor(receiptId) == {i \in 1..Len(calls) : calls[i].receiptId = receiptId}

ValidInputs(call) == call.receiptHash # 0 /\ call.ipfsCid # ""

Succeeded(receiptId) == {i \in CallsFor(receiptId) : outcomes[i] = "ok"}

\* two or more transactions name receiptId, all are mined, one had valid inputs
RaceDecided(receiptId) ==
    /\ Cardinality(CallsFor(receiptId)) >= 2
    /\ \A i \in CallsFor(receiptId) : outcomes[i] # "pending"
    /\ \E i \in CallsFor(receiptId) : ValidInputs(calls[i])

StoredIsCallOf(receiptId, i) ==
    /\ getReceipt(receiptId).receiptHash = calls[i].receiptHash
    /\ getReceipt(receiptId).ipfsCid = calls[i].ipfsCid
    /\ getReceipt(receiptId).originalTxHash = calls[i].originalTxHash
    /\ getReceipt(receiptId).anchoredBy = calls[i].sender

Mined(i) == outcomes[i] = "pending" /\ outcomes'[i] # "pending"

\* C15: anchorReceipt on a receiptId that is not anchored fails with
\* InvalidInput when the hash is zero or the locator is empty, and the failed
\* call applies nothing: records, id list (and count) and event log are
\* unchanged and the receiptId stays not anchored.
C15_InvalidInputAppliesNothing ==
    [][\A i \in 1..Len(calls) :
          (/\ Mined(i)
           /\ ~receiptExists(calls[i].receiptId)
           /\ ~ValidInputs(calls[i]))
             => /\ outcomes'[i] = "InvalidInput"
                /\ receipts' = receipts
                /\ receiptIds' = receiptIds
                /\ getReceiptCount' = getReceiptCount
                /\ events' = events
                /\ ~receiptExists(calls[i].receiptId)']_vars

\* C15 witness: a call failed with InvalidInput and a call for the same
\* receiptId, mined after it, succeeded
C15_Witness ==
    \E i, j \in 1..Len(calls) :
        /\ calls[i].receiptId = calls[j].receiptId
        /\ outcomes[i] = "InvalidInput"
        /\ outcomes[j] = "ok"
        /\ StoredIsCallOf(calls[j].receiptId, j)

\* C16: a successful anchorReceipt by a writer stores exactly the record of
\* its arguments with the writer and the current block time, appends the
\* receiptId once to the end of the id list and emits one event with the same
\* fields; the records of other receiptIds, the earlier ids and the earlier
\* events are unchanged.
C16_SuccessEffect ==
    [][\A i \in 1..Len(calls) :
          (Mined(i) /\ outcomes'[i] = "ok") =>
             /\ receipts' = [receipts EXCEPT ![calls[i].receiptId] =
                    [receiptHash |-> calls[i].receiptHash,
                     ipfsCid |-> calls[i].ipfsCid,
                     originalTxHash |-> calls[i].originalTxHash,
                     anchoredBy |-> calls[i].sender,
                     anchoredAt |-> blockTimestamp]]
             /\ receiptIds' = Append(receiptIds, calls[i].receiptId)
             /\ events' = Append(events,
                    [receiptId |-> calls[i].receiptId,
                     receiptHash |-> calls[i].receiptHash,
                     ipfsCid |-> calls[i].ipfsCid,
                     originalTxHash |-> calls[i].originalTxHash,
                     anchoredBy |-> calls[i].sender,
                     timestamp |-> blockTimestamp])]_vars

\* C16 witness: two receiptIds anchored by different writers in different
\* blocks, the first record still as written
C16_Witness ==
    /\ receiptIds = <<"id1", "id2">>
    /\ Len(events) = 2
    /\ getReceipt("id1").anchoredBy = "w2"
    /\ getReceipt("id1").anchoredAt = 1
    /\ getReceipt("id2").anchoredBy = "w1"
    /\ getReceipt("id2").anchoredAt = 2

\* C17: verifyReceipt(receiptId, h) returns false for every h, the zero hash
\* included, when receiptId has never been anchored, and otherwise returns
\* true exactly when h is the hash the successful anchorReceipt of receiptId
\* stored; getReceipt of a never-anchored receiptId is the zero-valued record.
C17_LedgerVerify ==
    \A receiptId \in LedgerIds :
        IF EventsFor(receiptId) = {}
        THEN /\ \A h \in Hashes : ledgerVerifyReceipt(receiptId, h) = FALSE
             /\ getReceipt(receiptId) = ZeroReceipt
        ELSE \A h \in Hashes :
                ledgerVerifyReceipt(receiptId, h) =
                    (\E i \in EventsFor(receiptId) : events[i].receiptHash = h)

\* C17 witness: one receiptId anchored, verified by its hash and not by
\* another; a failed anchorReceipt on the other receiptId left it unanchored
C17_Witness ==
    /\ EventsFor("id1") # {}
    /\ ledgerVerifyReceipt("id1", 1)
    /\ ~ledgerVerifyReceipt("id1", 2)
    /\ EventsFor("id2") = {}
    /\ lastCall.op = "anchorReceipt"
    /\ lastCall.receiptId = "id2"
    /\ lastCall.status = "InvalidInput"
    /\ ~ledgerVerifyReceipt("id2", 0)
    /\ getReceipt("id2") = ZeroReceipt

\* the receiptIds of the successful anchorReceipt calls of agent, in the
\* order of the calls
AnchoredBy(agent) ==
    LET mine == SelectSeq(events, LAMBDA e : e.anchoredBy = agent)
    IN [k \in 1..Len(mine) |-> mine[k].receiptId]

\* C18: after any sequence of anchorReceipt calls by any mix of writers,
\* getReceiptsByAgent(agent) is exactly the receiptIds whose successful
\* anchorReceipt was made by agent, each once, in the order in which they
\* were anchored, and none anchored by another writer.
C18_ListByWriter ==
    \A agent \in Senders \cup {"0x0"} :
        /\ getReceiptsByAgent(agent) = AnchoredBy(agent)
        /\ \A j, k \in 1..Len(getReceiptsByAgent(agent)) :
              j # k => getReceiptsByAgent(agent)[j] # getReceiptsByAgent(agent)[k]
        /\ \A k \in 1..Len(getReceiptsByAgent(agent)) :
              getReceipt(getReceiptsByAgent(agent)[k]).anchoredBy = agent

\* C18 witness: three anchors by one writer interleaved with two by another,
\* not in the order of the identifiers, and a later call that failed
C18_Witness ==
    /\ [k \in 1..Len(events) |-> events[k].anchoredBy]
          = <<"w1", "w2", "w1", "w2", "w1">>
    /\ getReceiptsByAgent("w1") = <<"id3", "id1", "id5">>
    /\ getReceiptsByAgent("w2") = <<"id4", "id2">>
    /\ getReceiptsByAgent("0x0") = <<>>
    /\ lastCall.status = "AlreadyAnchored"

AllVerified == out.op = "verifyAllAttestations"

\* C19: the aggregate validity verifyAllAttestations returns is true if and
\* only if verifyAttestation returns true for every attestation of the
\* receipt, also when several attestations carry the same signer address
\* string.
C19_AllValidIsConjunction ==
    AllVerified =>
       (out.valid <=>
           \A i \in 1..Len(receipt.attestations) :
               verifyAttestation(receipt, receipt.attestations[i]))

RequiredChecked == out.op = "hasRequiredAttestations"

WithRole(r, role) == {i \in 1..Len(r.attestations) : r.attestations[i].role = role}

\* C20: hasRequiredAttestations is true if and only if the attestation list
\* holds at least one attestation with role buyer and at least one with role
\* seller; a list of witness and arbiter attestations only gives false.
C20_BuyerAndSeller ==
    RequiredChecked =>
       /\ out.ret <=> (/\ Cardinality(WithRole(receipt, "buyer")) >= 1
                       /\ Cardinality(WithRole(receipt, "seller")) >= 1)
       /\ (\A i \in 1..Len(receipt.attestations) :
              receipt.attestations[i].role \in {"witness", "arbiter"})
             => ~out.ret

\* C20 witness: a witness and an arbiter attestation, both genuine, and the
\* answer is false
C20_Witness ==
    /\ RequiredChecked
    /\ Len(receipt.attestations) = 2
    /\ WithRole(receipt, "witness") # {}
    /\ WithRole(receipt, "arbiter") # {}
    /\ \A i \in 1..2 : verifyAttestation(receipt, receipt.attestations[i])
    /\ ~out.ret

AttestationAdded == out.op = "addAttestation" /\ out.status = "ok"

\* C21: a successful addAttestation(receipt, a) returns a receipt whose
\* attestation list is the old list followed by a and whose every other field
\* equals the input's; the input receipt and its list are as before the call.
C21_PureAppend ==
    AttestationAdded =>
       /\ receipt.attestations = out.argBefore.attestations \o <<out.attestation>>
       /\ \A i \in 1..Len(out.argBefore.attestations) :
             receipt.attestations[i] = out.argBefore.attestations[i]
       /\ [receipt EXCEPT !.attestations = <<>>]
             = [out.argBefore EXCEPT !.attestations = <<>>]
       /\ out.argAfter = out.argBefore
       /\ Len(out.argAfter.attestations) = Len(receipt.attestations) - 1

\* C21 witness: a second attestation, by another signer, was appended to a
\* list that held one
C21_Witness ==
    /\ AttestationAdded
    /\ Len(out.argBefore.attestations) = 1
    /\ Len(receipt.attestations) = 2
    /\ receipt.attestations[1] # receipt.attestations[2]
    /\ receipt.attestations[2] = out.attestation

\* signature recovery fails for one of the attestations of r
RecoveryFails(r) ==
    \E i \in 1..Len(r.attestations) :
        verifyTypedDataThrows(r.attestations[i].agent, r.attestations[i].signature)

AnchorAttempted == out.checkOnChain /\ receipt.anchorTxHash # Undefined

\* C22: verifyReceipt always returns {valid, checks, errors, confidence}; when
\* the transaction lookup, the settlement-receipt lookup, a signature
\* recovery or the anchoring-transaction lookup fails, the failing check is
\* false with a diagnostic in errors, and every other check is as it is
\* without that failure.
C22_FailuresDegrade ==
    ReceiptVerified =>
       /\ DOMAIN out.result = {"valid", "checks", "errors", "confidence"}
       /\ out.txRpc.getTransaction = "throws" =>
             /\ ~out.result.checks.transactionExists
             /\ ~out.result.checks.transactionMatches
             /\ HasError("Error fetching transaction")
       /\ (out.txRpc.getTransaction = "found"
              /\ out.txRpc.getTransactionReceipt = "throws") =>
             /\ ~out.result.checks.transactionMatches
             /\ HasError("Error fetching transaction")
       /\ RecoveryFails(receipt) =>
             /\ ~out.result.checks.signaturesValid
             /\ HasError("Invalid signature from")
       /\ (AnchorAttempted /\ out.anchorRpc.getTransaction = "throws") =>
             /\ out.result.checks.anchorMatches = "false"
             /\ HasError("On-chain anchor not found or does not match")
       /\ \A txRpc \in TxRpcs :
             LET other == verifyReceipt(receipt, out.checkOnChain, txRpc, out.anchorRpc)
             IN /\ other.checks.signaturesValid = out.result.checks.signaturesValid
                /\ other.checks.anchorMatches = out.result.checks.anchorMatches
                /\ other.checks.ipfsAvailable = out.result.checks.ipfsAvailable
       /\ \A anchorRpc \in AnchorRpcs(receipt) :
             LET other == verifyReceipt(receipt, out.checkOnChain, out.txRpc, anchorRpc)
             IN /\ other.checks.transactionExists = out.result.checks.transactionExists
                /\ other.checks.transactionMatches = out.result.checks.transactionMatches
                /\ other.checks.signaturesValid = out.result.checks.signaturesValid

QuickVerified == out.op = "quickVerify"

\* the transaction lookup or the settlement-receipt lookup fails
LookupFails(rpc) ==
    \/ rpc.getTransaction = "throws"
    \/ rpc.getTransaction = "found" /\ rpc.getTransactionReceipt = "throws"

\* C24: quickVerify's valid is transactionExists and transactionMatches as
\* verifyReceipt computes them; its outcome is the same for every attestation
\* list, anchoring transaction id and locator of the receipt; when a lookup
\* fails it returns valid false with a message.
C24_QuickVerify ==
    QuickVerified =>
       /\ \A checkOnChain \in BOOLEAN, anchorRpc \in AnchorRpcs(receipt) :
             LET full == verifyReceipt(receipt, checkOnChain, out.txRpc, anchorRpc)
             IN out.ret.valid <=> (/\ full.checks.transactionExists
                                   /\ full.checks.transactionMatches)
       /\ \A r \in TriageDocuments : quickVerify(r, out.txRpc) = out.ret
       /\ DOMAIN out.ret = {"valid", "message"}
       /\ out.ret.message.text # Undefined
       /\ LookupFails(out.txRpc) => ~out.ret.valid

\* C24 witness: a receipt without any attestation, locator or anchor passes
\* quickVerify, and verifyReceipt of the same receipt is not valid
C24_Witness ==
    /\ QuickVerified
    /\ out.ret.valid
    /\ Len(receipt.attestations) = 0
    /\ receipt.ipfsCid = Undefined
    /\ receipt.anchorTxHash = Undefined
    /\ \A anchorRpc \in AnchorRpcs(receipt) :
          ~verifyReceipt(receipt, TRUE, out.txRpc, anchorRpc).valid

TxFound(rpc) == rpc.getTransaction = "found" /\ rpc.getTransactionReceipt = "found"

Mismatches ==
    {"Block number mismatch", "Block hash mismatch", "Transaction was not successful"}

MismatchErrors ==
    {i \in 1..Len(out.result.errors) : out.result.errors[i].msg \in Mismatches}

\* how many of the three comparisons of verifyTransaction fail
FailedComparisons(r, rpc) ==
      (IF rpc.blockNumber # r.transaction.blockNumber THEN 1 ELSE 0)
    + (IF rpc.blockHash # r.transaction.blockHash THEN 1 ELSE 0)
    + (IF rpc.status # "success" THEN 1 ELSE 0)

\* what C25 says of matches, of the mismatch descriptions and of a failing
\* lookup
TransactionMatchRules ==
    /\ out.result.checks.transactionMatches <=>
          (TxFound(out.txRpc) /\ FailedComparisons(receipt, out.txRpc) = 0)
    /\ TxFound(out.txRpc) =>
          Cardinality(MismatchErrors) = FailedComparisons(receipt, out.txRpc)
    /\ ~TxFound(out.txRpc) => MismatchErrors = {}
    /\ LookupFails(out.txRpc) =>
          /\ ~out.result.checks.transactionExists
          /\ ~out.result.checks.transactionMatches
    /\ out.result.checks.transactionMatches => out.result.checks.transactionExists

\* C25 as stated: exists is true iff the transaction lookup returns a
\* transaction without failing; matches is true iff additionally the
\* settlement receipt is found with the recorded block number and block
\* identifier and status success; each failed comparison adds one mismatch
\* description; a lookup that throws yields exists false and matches false;
\* matches implies exists.
C25_ExistsIffTransactionFound ==
    ReceiptVerified =>
       /\ out.result.checks.transactionExists <=> out.txRpc.getTransaction = "found"
       /\ TransactionMatchRules

\* C25 amended: exists is true iff the transaction lookup returns a
\* transaction and the settlement-receipt lookup does not throw; the rest as
\* stated.
C25_ExistsUnlessLookupThrows ==
    ReceiptVerified =>
       /\ out.result.checks.transactionExists <=>
             (/\ out.txRpc.getTransaction = "found"
              /\ out.txRpc.getTransactionReceipt # "throws")
       /\ TransactionMatchRules

\* C25 witness: the settlement receipt is found with another block number
\* and a failed status: exists, no match, two mismatch descriptions
C25_Witness ==
    /\ ReceiptVerified
    /\ TxFound(out.txRpc)
    /\ out.txRpc.blockNumber # receipt.transaction.blockNumber
    /\ out.txRpc.blockHash = receipt.transaction.blockHash
    /\ out.txRpc.status = "reverted"
    /\ out.result.checks.transactionExists
    /\ ~out.result.checks.transactionMatches
    /\ Cardinality(MismatchErrors) = 2

\* the receipt with a locator if it has none, without if it has one
OtherLocator(r) ==
    [r EXCEPT !.ipfsCid = IF @ = Undefined THEN "bafyreig1" ELSE Undefined]

\* C26: verifyReceipt attempts the anchor check iff the receipt carries an
\* anchoring transaction id and the caller asks for on-chain checking or
\* leaves the option out; it attempts the content-availability check iff a
\* locator is present; a check not attempted is undefined and adds no error;
\* the content-availability outcome never changes valid.
C26_OptionalChecks ==
    ReceiptVerified =>
       /\ out.result.checks.anchorMatches # "undefined" <=>
             (receipt.anchorTxHash # Undefined /\ out.given # "false")
       /\ out.result.checks.ipfsAvailable # "undefined" <=>
             receipt.ipfsCid # Undefined
       /\ out.result.checks.anchorMatches = "undefined" =>
             ~HasError("On-chain anchor not found or does not match")
       /\ LET other == verifyReceipt(OtherLocator(receipt), out.checkOnChain,
                                     out.txRpc, out.anchorRpc)
          IN /\ other.checks.ipfsAvailable # out.result.checks.ipfsAvailable
             /\ other.valid = out.result.valid
             /\ other.errors = out.result.errors

\* C26 witness: an anchored, pinned receipt verified with on-chain checking
\* switched off: the anchor check is skipped, the content check is not, and
\* the receipt is valid
C26_Witness ==
    /\ ReceiptVerified
    /\ out.given = "false"
    /\ receipt.anchorTxHash # Undefined
    /\ receipt.ipfsCid # Undefined
    /\ out.anchorRpc.getTransaction = "throws"
    /\ out.result.checks.anchorMatches = "undefined"
    /\ out.result.checks.ipfsAvailable = "true"
    /\ out.result.valid
    /\ out.result.errors = <<>>

\* C28: whenever verifyReceipt returns valid false, its errors list is not
\* empty.
C28_InvalidHasErrors ==
    (ReceiptVerified /\ ~out.result.valid) => Len(out.result.errors) > 0

\* C28 witness: the transaction checks pass, buyer and seller attested, one
\* signature does not verify: not valid, and the only error names the signer
C28_Witness ==
    /\ ReceiptVerified
    /\ ~out.result.valid
    /\ out.result.checks.transactionExists
    /\ out.result.checks.transactionMatches
    /\ hasRequiredAttestations(receipt)
    /\ Len(out.result.errors) = 1
    /\ out.result.errors[1].msg = "Invalid signature from"

InIdList(receiptId) == \E i \in 1..Len(receiptIds) : receiptIds[i] = receiptId

\* C27: in every reachable ledger state the id list holds no receiptId
\* twice, getReceiptCount is its length and the number of successful
\* anchorReceipt calls so far, and receiptExists(receiptId) iff receiptId is
\* in the id list iff getReceipt(receiptId).anchoredAt is not zero; every
\* step keeps the id list as a prefix of the new one and keeps every
\* existing receiptId existing.
C27_LedgerInvariants ==
    /\ [](/\ \A i, j \in 1..Len(receiptIds) : i # j => receiptIds[i] # receiptIds[j]
          /\ getReceiptCount = Len(receiptIds)
          /\ getReceiptCount = Len(events)
          /\ \A receiptId \in LedgerIds :
                /\ receiptExists(receiptId) <=> InIdList(receiptId)
                /\ InIdList(receiptId) <=> getReceipt(receiptId).anchoredAt # 0)
    /\ [][/\ Len(receiptIds') >= Len(receiptIds)
          /\ \A i \in 1..Len(receiptIds) : receiptIds'[i] = receiptIds[i]
          /\ \A receiptId \in LedgerIds :
                receiptExists(receiptId) => receiptExists(receiptId)']_vars

\* C27 witness: both receiptIds anchored, in blocks 1 and 2, and a further
\* call on the first one has failed
C27_Witness ==
    /\ receiptIds = <<"id2", "id1">>
    /\ getReceiptCount = 2
    /\ getReceipt("id2").anchoredAt = 1
    /\ getReceipt("id1").anchoredAt = 2
    /\ receiptExists("id1") /\ receiptExists("id2")
    /\ lastCall.op = "anchorReceipt"
    /\ lastCall.receiptId = "id2"
    /\ lastCall.status = "AlreadyAnchored"

\* the attestation with another role and signing time
Relabelled(attestation, role, date) ==
    [attestation EXCEPT !.role = role, !.timestamp = date]

\* C29: the result of verifyAttestation is the same for every role and
\* signing time the attestation may carry, and for every receipt that agrees
\* with the verified one on the seven signed fields.
C29_RoleNotVerified ==
    AttestationVerified =>
       /\ \A role \in Roles, date \in 1..MaxNow :
             verifyAttestation(out.receipt, Relabelled(out.attestation, role, date))
                = out.ret
       /\ \A r \in ReceiptInputs :
             ~DiffersInSignedField(r, out.receipt)
                => verifyAttestation(r, out.attestation) = out.ret

\* C29 witness: an attestation signed as witness, relabelled as buyer,
\* verifies; with its relabelling as seller it satisfies
\* hasRequiredAttestations
C29_Witness ==
    /\ AttestationVerified
    /\ signed # NoSigned
    /\ signed.attestation.role = "witness"
    /\ out.attestation = Relabelled(signed.attestation, "buyer", out.attestation.timestamp)
    /\ out.receipt = signed.receipt
    /\ out.ret
    /\ hasRequiredAttestations(
          [out.receipt EXCEPT !.attestations =
              <<out.attestation, Relabelled(signed.attestation, "seller", 1)>>])

Anchored(r) == r.onChainAnchor # Undefined \/ r.anchorTxHash # Undefined

\* C23: once a receipt is anchored it is read-only: no operation yields a
\* receipt with further attestations, removed attestations or changed
\* fields.
C23_ReadOnlyAfterAnchor ==
    [][(receipt # NoReceipt /\ Anchored(receipt)) => receipt' = receipt]_vars

\* the attestations at hand: those of the receipt and the one signReceipt
\* returned last
AtHand ==
    {receipt.attestations[i] : i \in 1..Len(receipt.attestations)}
    \cup (IF signed = NoSigned THEN {} ELSE {signed.attestation})

\* C30: an attestation that verifies against a receipt verifies against
\* every receipt derived from it by addAttestation, pinning and anchoring,
\* and every attestation of a receipt of the flow verifies against it.
C30_AttestationsSurvive ==
    /\ [](receipt # NoReceipt =>
             \A i \in 1..Len(receipt.attestations) :
                 verifyAttestation(receipt, receipt.attestations[i]))
    /\ [][receipt # NoReceipt =>
             \A attestation \in AtHand :
                 verifyAttestation(receipt, attestation)
                    => verifyAttestation(receipt', attestation)]_vars

\* C30 witness: the end of the flow: buyer then seller attested, the receipt
\* pinned and anchored, both attestations verify against the final receipt
C30_Witness ==
    /\ receipt # NoReceipt
    /\ Len(receipt.attestations) = 2
    /\ receipt.attestations[1].role = "buyer"
    /\ receipt.attestations[2].role = "seller"
    /\ receipt.ipfsCid = "bafyreig2"
    /\ receipt.onChainAnchor # Undefined
    /\ receipt.anchorTxHash # Undefined
    /\ out.op = "anchorOnChain"
    /\ verifyAttestation(receipt, receipt.attestations[1])
    /\ verifyAttestation(receipt, receipt.attestations[2])

====
